---- MODULE Spec2Model ----
(***************************************************************************)
(* Document Analyzer (streamlit.py): the analysis routine                  *)
(* analyze_document and the upload / paste / sample flow of main().        *)
(*                                                                         *)
(* A text is a sequence of one-character strings, so that splitting,       *)
(* stripping, lower-casing and the three regular expressions are computed  *)
(* character by character as Python computes them.                         *)
(***************************************************************************)
EXTENDS Integers, Sequences, FiniteSets, TLC

VARIABLES
    installed,        \* optional decoder libraries that can be imported
    scorer,           \* what textstat.flesch_reading_ease does on the text
    hashseed,         \* string-hash seed of the running Python process
    input_method,     \* st.radio selection
    uploaded_file,    \* st.file_uploader value: <<>> or <<file>>
    pasted_text,      \* st.text_area value
    pasted_name,      \* st.text_input value
    selected_sample,  \* st.selectbox value
    button,           \* st.button value in the latest script run
    text_content,     \* main(): text_content after the input section
    filename,         \* main(): filename after the input section
    results,          \* <<>> or <<record returned by analyze_document>>
    messages,         \* st.error / st.warning / st.success of the latest run
    tmp_files,        \* temporary files existing on disk
    rendered,         \* <<>> or <<the metric strip shown for results>>
    aborted           \* the latest script run ended in an uncaught exception

vars == <<installed, scorer, hashseed, input_method, uploaded_file, pasted_text,
          pasted_name, selected_sample, button, text_content, filename,
          results, messages, tmp_files, rendered, aborted>>

-----------------------------------------------------------------------------
(* Bounds of the model *)

MaxChars == 3        \* exhaustive texts over SmallAlphabet up to this length
MaxWindow == 10      \* longest run of corpus tokens taken as one text
NumSeeds == 2        \* number of distinct hash seeds (process runs)
MaxTmpFiles == 1     \* temporary files that may pile up on disk

-----------------------------------------------------------------------------
(* Characters *)

UpperChars == <<"A", "B", "C", "D", "E", "F", "G", "H", "I", "J", "K", "L", "M", "N", "O", "P", "Q", "R", "S", "T", "U", "V", "W", "X", "Y", "Z">>
LowerChars == <<"a", "b", "c", "d", "e", "f", "g", "h", "i", "j", "k", "l", "m", "n", "o", "p", "q", "r", "s", "t", "u", "v", "w", "x", "y", "z">>
Digits == {"0", "1", "2", "3", "4", "5", "6", "7", "8", "9"}
Letters == {UpperChars[i] : i \in 1..26} \cup {LowerChars[i] : i \in 1..26}

\* str.split() and str.strip() without argument act on whitespace
Whitespace == {" ", "\t", "\n", "\r", "\f"}

\* the \w class of the re module (ASCII part)
IsWordChar(c) == c \in Letters \cup Digits \cup {"_"}

Min(a, b) == IF a < b THEN a ELSE b

\* str.lower() on one character
LowerOf == [c \in {UpperChars[i] : i \in 1..26} |->
               LowerChars[CHOOSE i \in 1..26 : UpperChars[i] = c]]

LowerChar(c) == IF c \in DOMAIN LowerOf THEN LowerOf[c] ELSE c

\* str.lower()
Lower(s) == [i \in 1..Len(s) |-> LowerChar(s[i])]

\* the `in` operator on strings: k occurs in t as a substring
Contains(t, k) ==
    \E i \in 1..(Len(t) - Len(k) + 1) : \A j \in 1..Len(k) : t[i + j - 1] = k[j]

\* end of the longest run of characters of the class starting at i
\* (i - 1 when t[i] is not in the class or i is past the end)
RunEnd(t, i, class) ==
    CHOOSE e \in (i - 1)..Len(t) :
        /\ \A k \in i..e : t[k] \in class
        /\ e = Len(t) \/ t[e + 1] \notin class

\* the same for the characters outside the class
RunEndNot(t, i, class) ==
    CHOOSE e \in (i - 1)..Len(t) :
        /\ \A k \in i..e : t[k] \notin class
        /\ e = Len(t) \/ t[e + 1] \in class

\* the words that start at the positions lo..hi of t, by halving the range
RECURSIVE WordsIn(_, _, _)
WordsIn(t, lo, hi) ==
    IF lo > hi THEN <<>>
    ELSE IF lo = hi
    THEN IF t[lo] \notin Whitespace /\ (lo = 1 \/ t[lo - 1] \in Whitespace)
         THEN <<SubSeq(t, lo, RunEndNot(t, lo, Whitespace))>>
         ELSE <<>>
    ELSE LET mid == (lo + hi) \div 2
         IN  WordsIn(t, lo, mid) \o WordsIn(t, mid + 1, hi)

\* text.split(): the maximal runs of non-whitespace characters
SplitWords(t) == WordsIn(t, 1, Len(t))

\* the pieces between separators that start at the positions lo..hi of t
RECURSIVE PiecesIn(_, _, _, _)
PiecesIn(t, sep, lo, hi) ==
    IF lo > hi THEN <<>>
    ELSE IF lo = hi
    THEN IF lo = 1 \/ t[lo - 1] = sep
         THEN <<SubSeq(t, lo, RunEndNot(t, lo, {sep}))>>
         ELSE <<>>
    ELSE LET mid == (lo + hi) \div 2
         IN  PiecesIn(t, sep, lo, mid) \o PiecesIn(t, sep, mid + 1, hi)

\* text.split(sep) for a one-character separator: the pieces between the
\* separators, empty pieces included
SplitOn(t, sep) == PiecesIn(t, sep, 1, Len(t) + 1)

\* s.strip(chars): drop leading and trailing characters of the set
Strip(s, chars) ==
    LET keep == {i \in 1..Len(s) : s[i] \notin chars}
    IN  IF keep = {} THEN <<>>
        ELSE SubSeq(s, CHOOSE i \in keep : \A j \in keep : i <= j,
                       CHOOSE i \in keep : \A j \in keep : i >= j)

\* the entries at the positions lo..hi of a list that do not occur before
RECURSIVE FirstsIn(_, _, _)
FirstsIn(lst, lo, hi) ==
    IF lo > hi THEN <<>>
    ELSE IF lo = hi
    THEN IF \A j \in 1..(lo - 1) : lst[j] # lst[lo] THEN <<lst[lo]>> ELSE <<>>
    ELSE LET mid == (lo + hi) \div 2
         IN  FirstsIn(lst, lo, mid) \o FirstsIn(lst, mid + 1, hi)

\* the distinct values of a list in order of first occurrence
Distinct(lst) == FirstsIn(lst, 1, Len(lst))

\* [s for s in lst if s]: the non-empty entries at the positions lo..hi
RECURSIVE NonEmptyIn(_, _, _)
NonEmptyIn(lst, lo, hi) ==
    IF lo > hi THEN <<>>
    ELSE IF lo = hi
    THEN IF lst[lo] # <<>> THEN <<lst[lo]>> ELSE <<>>
    ELSE LET mid == (lo + hi) \div 2
         IN  NonEmptyIn(lst, lo, mid) \o NonEmptyIn(lst, mid + 1, hi)

CountOf(lst, w) == Cardinality({i \in 1..Len(lst) : lst[i] = w})

\* lst[:n]
Take(lst, n) == SubSeq(lst, 1, Min(n, Len(lst)))

\* the elements of a list
Range(lst) == {lst[i] : i \in 1..Len(lst)}

-----------------------------------------------------------------------------
(* Document type detection, streamlit.py 117-128 *)

AcademicWords == {<<"a", "b", "s", "t", "r", "a", "c", "t">>, <<"i", "n", "t", "r", "o", "d", "u", "c", "t", "i", "o", "n">>, <<"m", "e", "t", "h", "o", "d", "o", "l", "o", "g", "y">>, <<"c", "o", "n", "c", "l", "u", "s", "i", "o", "n">>}
BusinessWords == {<<"e", "x", "e", "c", "u", "t", "i", "v", "e">>, <<"b", "u", "s", "i", "n", "e", "s", "s">>, <<"m", "a", "r", "k", "e", "t">>, <<"s", "t", "r", "a", "t", "e", "g", "y">>}
LiteraryWords == {<<"c", "h", "a", "p", "t", "e", "r">>, <<"n", "o", "v", "e", "l">>, <<"s", "t", "o", "r", "y">>}

ShortDocWords == 100

\* the label carries an icon in front, which main() cuts off for display
DocType(icon, label) == [icon |-> icon, label |-> label]

\* the business rule tried before the academic one
doc_type_business_first(text, word_count) ==
    LET text_lower == Lower(text)
    IN  IF \E word \in BusinessWords : Contains(text_lower, word)
        THEN DocType("briefcase", "Business Document")
        ELSE IF \E word \in AcademicWords : Contains(text_lower, word)
        THEN DocType("books", "Academic Paper")
        ELSE IF \E word \in LiteraryWords : Contains(text_lower, word)
        THEN DocType("open book", "Literary Work")
        ELSE IF word_count < ShortDocWords
        THEN DocType("memo", "Short Document")
        ELSE DocType("page", "General Document")

doc_type(text, word_count) ==
    LET text_lower == Lower(text)
    IN  IF \E word \in AcademicWords : Contains(text_lower, word)
        THEN DocType("books", "Academic Paper")
        ELSE IF \E word \in BusinessWords : Contains(text_lower, word)
        THEN DocType("briefcase", "Business Document")
        ELSE IF \E word \in LiteraryWords : Contains(text_lower, word)
        THEN DocType("open book", "Literary Work")
        ELSE IF word_count < ShortDocWords
        THEN DocType("memo", "Short Document")
        ELSE DocType("page", "General Document")

-----------------------------------------------------------------------------
(* Readability, streamlit.py 130-137 *)

\* scorer = <<"missing">>: import textstat raises
\* scorer = <<"raises">>:  flesch_reading_ease raises
\* scorer = <<"score", v>>: flesch_reading_ease returns v
readability(text) ==
    IF scorer[1] = "score" /\ text # <<>> THEN scorer[2] ELSE 0

-----------------------------------------------------------------------------
(* Key topics, streamlit.py 139-142 *)

stop_words == {
    <<"t", "h", "e">>, <<"a", "n", "d">>, <<"a", "r", "e">>, <<"f", "o", "r">>, <<"w", "i", "t", "h">>, <<"t", "h", "i", "s">>, <<"t", "h", "a", "t">>,
    <<"f", "r", "o", "m">>, <<"t", "h", "e", "y">>, <<"h", "a", "v", "e">>, <<"b", "e", "e", "n">>, <<"w", "i", "l", "l">>, <<"c", "a", "n">>, <<"w", "a", "s">>,
    <<"w", "e", "r", "e">>, <<"n", "o", "t">>, <<"y", "o", "u">>, <<"y", "o", "u", "r">>, <<"b", "u", "t">>, <<"a", "l", "l">>, <<"m", "a", "y">>,
    <<"s", "a", "i", "d">>, <<"e", "a", "c", "h">>, <<"w", "h", "i", "c", "h">>, <<"t", "h", "e", "i", "r">>, <<"t", "i", "m", "e">>}

Punctuation == {".", ",", "!", "?", ";", ":", "\"", "(", ")", "[", "]"}

MinWordLen == 3
MaxTopics == 8

\* the filter of the comprehension: it sees the word as split, not yet stripped
KeepWord(w) == Len(w) > MinWordLen /\ Lower(w) \notin stop_words

\* the words at the positions lo..hi that pass the filter
RECURSIVE KeptIn(_, _, _)
KeptIn(words, lo, hi) ==
    IF lo > hi THEN <<>>
    ELSE IF lo = hi
    THEN IF KeepWord(words[lo]) THEN <<words[lo]>> ELSE <<>>
    ELSE LET mid == (lo + hi) \div 2
         IN  KeptIn(words, lo, mid) \o KeptIn(words, mid + 1, hi)

clean_words(words) ==
    LET kept == KeptIn(words, 1, Len(words))
    IN  [i \in 1..Len(kept) |-> Strip(Lower(kept[i]), Punctuation)]

\* Counter(lst).most_common(n): by count, descending; ties in order of
\* first occurrence
most_common(lst, n) ==
    LET d == Distinct(lst)
        count == [i \in 1..Len(d) |-> CountOf(lst, d[i])]
        \* the entry that comes next among the entries not yet taken
        RECURSIVE pick(_, _)
        pick(left, k) ==
            IF k = 0 \/ left = {} THEN <<>>
            ELSE LET i == CHOOSE i \in left :
                              \A j \in left :
                                  \/ count[j] < count[i]
                                  \/ count[j] = count[i] /\ j >= i
                 IN  <<d[i]>> \o pick(left \ {i}, k - 1)
    IN  pick(1..Len(d), n)

topics(words) == most_common(clean_words(words), MaxTopics)

-----------------------------------------------------------------------------
(* Summary, streamlit.py 144-146 *)

SummaryChars == 200

sentences(text) ==
    LET parts == SplitOn(text, ".")
        stripped == [i \in 1..Len(parts) |-> Strip(parts[i], Whitespace)]
    IN  NonEmptyIn(stripped, 1, Len(stripped))

\* the segments joined without being trimmed
summary_untrimmed(text) ==
    LET parts == SplitOn(text, ".")
        blank == {i \in 1..Len(parts) : Strip(parts[i], Whitespace) = <<>>}
        ss == NonEmptyIn([i \in 1..Len(parts) |-> IF i \in blank THEN <<>> ELSE parts[i]],
                         1, Len(parts))
    IN  IF Len(ss) >= 2
        THEN ss[1] \o <<".", " ">> \o ss[2] \o <<".">>
        ELSE Take(text, SummaryChars) \o <<".", ".", ".">>

summary(text) ==
    LET ss == sentences(text)
    IN  IF Len(ss) >= 2
        THEN ss[1] \o <<".", " ">> \o ss[2] \o <<".">>
        ELSE Take(text, SummaryChars) \o <<".", ".", ".">>

-----------------------------------------------------------------------------
(* Entity extraction, streamlit.py 148-151: the three patterns as the re   *)
(* module matches them (leftmost match, greedy with backtracking)          *)

IsW(t, p) == p >= 1 /\ p <= Len(t) /\ IsWordChar(t[p])

\* \b between positions p and p+1 (p = 0: start of text, p = Len: end)
WordBoundary(t, p) == IsW(t, p) # IsW(t, p + 1)

AllIn(t, lo, hi, class) == hi <= Len(t) /\ \A k \in lo..hi : t[k] \in class

DateSeps == {"/", "-"}

\* the repetition counts of \d{1,2}[/-]\d{1,2}[/-]\d{2,4} in the order in
\* which a greedy match tries them
DateShapes ==
    [k \in 1..12 |-> << 2 - ((k - 1) \div 6),
                        2 - (((k - 1) \div 3) % 2),
                        4 - ((k - 1) % 3) >>]

DateShapeEnd(i, shape) == i + shape[1] + shape[2] + shape[3] + 1

DateShapeMatches(t, i, shape) ==
    LET a == shape[1]
        b == shape[2]
        e == DateShapeEnd(i, shape)
    IN  /\ e <= Len(t)
        /\ WordBoundary(t, i - 1)
        /\ AllIn(t, i, i + a - 1, Digits)
        /\ t[i + a] \in DateSeps
        /\ AllIn(t, i + a + 1, i + a + b, Digits)
        /\ t[i + a + b + 1] \in DateSeps
        /\ AllIn(t, i + a + b + 2, e, Digits)
        /\ WordBoundary(t, e)

\* \b\d{4}\b
YearMatches(t, i) ==
    /\ WordBoundary(t, i - 1)
    /\ AllIn(t, i, i + 3, Digits)
    /\ WordBoundary(t, i + 3)

\* r'\b\d{1,2}[/-]\d{1,2}[/-]\d{2,4}\b|\b\d{4}\b' at position i:
\* the position of the last character matched, 0 when there is no match
DateEnd(t, i) ==
    IF ~ (t[i] \in Digits /\ WordBoundary(t, i - 1)) THEN 0
    ELSE LET ok == {k \in 1..12 : DateShapeMatches(t, i, DateShapes[k])}
         IN  IF ok # {}
             THEN DateShapeEnd(i, DateShapes[CHOOSE k \in ok : \A m \in ok : k <= m])
             ELSE IF YearMatches(t, i) THEN i + 3 ELSE 0

\* r'\b\d+(?:\.\d+)?%\b' at position i
PercentEnd(t, i) ==
    IF ~ (t[i] \in Digits /\ WordBoundary(t, i - 1)) THEN 0
    ELSE LET e == RunEnd(t, i, Digits)
             frac == e + 2 <= Len(t) /\ t[e + 1] = "." /\ t[e + 2] \in Digits
             e2 == RunEnd(t, e + 2, Digits)
         IN  IF frac /\ e2 + 1 <= Len(t) /\ t[e2 + 1] = "%" /\ WordBoundary(t, e2 + 1)
             THEN e2 + 1
             ELSE IF e + 1 <= Len(t) /\ t[e + 1] = "%" /\ WordBoundary(t, e + 1)
             THEN e + 1
             ELSE 0

LocalChars == Letters \cup Digits \cup {".", "_", "%", "+", "-"}
DomainChars == Letters \cup Digits \cup {".", "-"}
TldChars == Letters \cup {"|"}     \* [A-Z|a-z]: the bar is part of the class
MinTld == 2

\* r'\b[A-Za-z0-9._%+-]+@[A-Za-z0-9.-]+\.[A-Z|a-z]{2,}\b' at position i
EmailEnd(t, i) ==
    IF ~ (t[i] \in LocalChars /\ WordBoundary(t, i - 1)) THEN 0
    ELSE LET le == RunEnd(t, i, LocalChars)
             ds == le + 2
             de == RunEnd(t, ds, DomainChars)
             \* d: position of the literal dot, e: last character of the match
             cands == {c \in ((ds + 1)..de) \X ((ds + 1)..Len(t)) :
                          /\ t[c[1]] = "."
                          /\ c[2] >= c[1] + MinTld
                          /\ AllIn(t, c[1] + 1, c[2], TldChars)
                          /\ WordBoundary(t, c[2])}
             best == CHOOSE c \in cands :
                         \A o \in cands :
                             o[1] < c[1] \/ (o[1] = c[1] /\ o[2] <= c[2])
         IN  IF le + 1 <= Len(t) /\ t[le + 1] = "@" /\ cands # {}
             THEN best[2]
             ELSE 0

\* pattern.match(text, i): the position of the last character matched,
\* 0 when there is no match at i
MatchEnd(pattern, t, i) ==
    CASE pattern = "date" -> DateEnd(t, i)
      [] pattern = "percent" -> PercentEnd(t, i)
      [] pattern = "email" -> EmailEnd(t, i)

\* the match that starts at i and ends at e, if there is one
MatchAt(i, e) == IF e >= i THEN << <<i, e>> >> ELSE <<>>

\* the matches that start at the positions lo..hi of t, by halving the range
RECURSIVE MatchesIn(_, _, _, _)
MatchesIn(pattern, t, lo, hi) ==
    IF lo > hi THEN <<>>
    ELSE IF lo = hi THEN MatchAt(lo, MatchEnd(pattern, t, lo))
    ELSE LET mid == (lo + hi) \div 2
         IN  MatchesIn(pattern, t, lo, mid) \o MatchesIn(pattern, t, mid + 1, hi)

\* the matches a scan from left to right finds: after a match the scan goes
\* on behind it, so a match that starts inside the previous one is skipped
RECURSIVE Leftmost(_, _, _, _)
Leftmost(t, ms, k, from) ==
    IF k > Len(ms) THEN <<>>
    ELSE IF ms[k][1] < from THEN Leftmost(t, ms, k + 1, from)
    ELSE <<SubSeq(t, ms[k][1], ms[k][2])>> \o Leftmost(t, ms, k + 1, ms[k][2] + 1)

\* re.findall(pattern, text): the non-overlapping matches, left to right
FindAll(pattern, t) == Leftmost(t, MatchesIn(pattern, t, 1, Len(t)), 1, 1)

\* time.time() - start_time, in ticks of the clock
Durations == {1, 2}

MaxDates == 5
MaxPercentages == 5
MaxEmails == 3

\* list(set(lst)): the distinct values in the iteration order of a set of
\* strings, which depends on the hash seed of the process
SetList(lst, seed) ==
    LET d == Distinct(lst)
        n == Len(d)
    IN  [k \in 1..n |-> d[((k - 1 + seed) % n) + 1]]

\* the list of dates without the slice
dates_uncapped(text, seed) == SetList(FindAll("date", text), seed)

dates(text, seed) == Take(SetList(FindAll("date", text), seed), MaxDates)
percentages(text, seed) == Take(SetList(FindAll("percent", text), seed), MaxPercentages)
emails(text, seed) == Take(SetList(FindAll("email", text), seed), MaxEmails)

-----------------------------------------------------------------------------
(* analyze_document, streamlit.py 108-167 *)

words(text) == IF text # <<>> THEN SplitWords(text) ELSE <<>>

\* analyze_document(text, fname)[elapsed]: the record returned when the
\* two readings of the clock are elapsed apart
analyze_document(text, fname) ==
    LET ws == words(text)
        type == doc_type(text, Len(ws))
        score == readability(text)
        tops == topics(ws)
        summ == summary(text)
        ds == dates(text, hashseed)
        ps == percentages(text, hashseed)
        es == emails(text, hashseed)
    IN  [elapsed \in Durations |->
            [filename        |-> fname,
             word_count      |-> Len(ws),
             char_count      |-> Len(text),
             doc_type        |-> type,
             readability     |-> score,
             topics          |-> tops,
             summary         |-> summ,
             dates           |-> ds,
             percentages     |-> ps,
             emails          |-> es,
             processing_time |-> elapsed]]

-----------------------------------------------------------------------------
(* Inputs *)

\* tokens joined by single blanks
RECURSIVE JoinWords(_)
JoinWords(toks) ==
    IF toks = <<>> THEN <<>>
    ELSE IF Len(toks) = 1 THEN toks[1]
    ELSE toks[1] \o <<" ">> \o JoinWords(Tail(toks))

\* the texts made of at most MaxWindow consecutive tokens of a corpus
Windows(corpus) ==
    LET n == Len(corpus)
    IN  {JoinWords(SubSeq(corpus, c[1], c[2])) :
            c \in {c \in (1..n) \X (1..n) :
                       c[1] <= c[2] /\ c[2] - c[1] < MaxWindow}}

Repeat(tok, n) == [i \in 1..(n * Len(tok)) |-> tok[((i - 1) % Len(tok)) + 1]]

SmallAlphabet == {"a", ".", " ", "1", "%"}
ShortTexts == UNION {[1..n -> SmallAlphabet] : n \in 0..MaxChars}

TopicCorpus == <<
    <<"T", "h", "e">>, <<"t", "i", "m", "e">>, <<"t", "h", "e", "n">>, <<"t", "h", "e", ".">>, <<"w", "i", "t", "h", ",">>, <<"(", "a", "n", ")">>,
    <<"d", "a", "t", "a">>, <<"D", "a", "t", "a", ".">>, <<"m", "o", "d", "e", "l">>, <<"g", "r", "a", "p", "h">>, <<"a", "l", "p", "h", "a">>, <<"g", "a", "m", "m", "a">>,
    <<"d", "e", "l", "t", "a">>, <<"o", "m", "e", "g", "a">>, <<"s", "i", "g", "m", "a">>, <<"k", "a", "p", "p", "a">>, <<"t", "h", "e", "t", "a">>, <<"d", "a", "t", "a">>,
    <<".", ".", ".", ".">>, <<"\"", "W", "h", "i", "c", "h", "\"">> >>

TypeCorpus == <<
    <<"p", "l", "a", "i", "n">>, <<"A", "b", "s", "t", "r", "a", "c", "t">>, <<"e", "x", "e", "c", "u", "t", "i", "v", "e">>, <<"c", "h", "a", "p", "t", "e", "r">>, <<"w", "o", "r", "d", "s">>,
    <<"h", "i", "s", "t", "o", "r", "y">>, <<"M", "A", "R", "K", "E", "T">>, <<"n", "o", "v", "e", "l", "s">>, <<"o", "t", "h", "e", "r">>, <<"C", "o", "n", "c", "l", "u", "s", "i", "o", "n", ":">>,
    <<"s", "t", "r", "a", "t", "e", "g", "y">>, <<"a", "b", "s">>, <<"t", "r", "a", "c", "t">> >>

SummaryCorpus == <<
    <<"O", "n", "e", ".">>, <<"T", "w", "o">>, <<".">>, <<"t", "h", "r", "e", "e", ".", "f", "o", "u", "r">>, <<".", ".">>, <<"e", "n", "d">>,
    <<"v", "1", ".", "2">>, <<"l", "a", "s", "t", ".">> >>

DateCorpus == <<
    <<"2", "0", "0", "1">>, <<"2", "0", "0", "2", ",">>, <<"2", "0", "0", "3">>, <<"2", "0", "0", "4">>, <<"2", "0", "0", "5">>, <<"2", "0", "0", "6">>,
    <<"2", "0", "0", "1">>, <<"1", "2", "/", "0", "5", "/", "2", "0", "2", "3", ".">>, <<"1", "-", "2", "-", "9", "9">>, <<"1", "2", "3", "4", "5">>, <<"1", "/", "2", "/", "2", "0", "2", "3", "1">>,
    <<"x", "2", "0", "0", "7">>, <<"3", "/", "4", "/", "5">>, <<"1", "1", "/", "2", "2", "/", "3", "3", "3">> >>

PercentCorpus == <<
    <<"1", "%", "a">>, <<"2", "%", "a">>, <<"3", ".", "5", "%", "b">>, <<"4", "%", "c">>, <<"5", "%", "d">>, <<"6", "%", "e">>, <<"1", "%", "a">>,
    <<"1", "8", ".", "5", "%", ".">>, <<"1", "8", "%">>, <<"x", "7", "%", "y">>, <<"8", ".", "%", "z">>, <<"9", "%", "_">> >>

EmailCorpus == <<
    <<"a", "@", "b", ".", "c", "o">>, <<"c", "@", "d", ".", "o", "r", "g">>, <<"e", "@", "f", ".", "n", "e", "t", ",">>, <<"g", "@", "h", ".", "i", "o">>, <<"a", "@", "b", ".", "c", "o">>,
    <<"x", "@", "y">>, <<"a", "@", "b", ".", "c", "|", "d">>, <<"u", ".", "v", "@", "w", ".", "x", ".", "y", "z">>, <<"a", "@", "b", ".", "c", "o", "m", "1">>, <<"+", "k", "@", "m", ".", "n", ".", "o">> >>

Scenario == <<"C", "o", "n", "t", "a", "c", "t", " ", "j", "o", "h", "n", "@", "e", "x", "a", "m", "p", "l", "e", ".", "c", "o", "m", " ", "o", "n", " ", "1", "2", "/", "0", "5", "/", "2", "0", "2", "3", ".", " ", "G", "r", "o", "w", "t", "h", " ", "w", "a", "s", " ", "1", "8", ".", "5", "%", ".", " ", "R", "e", "v", "e", "n", "u", "e", " ", "i", "n", "c", "r", "e", "a", "s", "e", "d", " ", "1", "8", "%", " ", "y", "e", "a", "r", "-", "o", "v", "e", "r", "-", "y", "e", "a", "r", ".">>

LongTexts ==
    {Repeat(<<"a", "b", " ">>, n) : n \in {ShortDocWords - 1, ShortDocWords}} \cup
    {Repeat(<<"a">>, n) : n \in {SummaryChars - 1, SummaryChars + 1}} \cup
    {Repeat(<<"a">>, SummaryChars + 1) \o <<".", " ", "b">>}

FnTexts ==
    ShortTexts \cup Windows(TopicCorpus) \cup Windows(TypeCorpus) \cup
    Windows(SummaryCorpus) \cup Windows(DateCorpus) \cup
    Windows(PercentCorpus) \cup Windows(EmailCorpus) \cup LongTexts \cup
    {Scenario}

Filenames == {<<"n", "o", "t", "e", "s", ".", "t", "x", "t">>}
Scores == {0, 65}
Scorers == {<<"missing">>, <<"raises">>} \cup {<<"score", v>> : v \in Scores}
Seeds == 0..(NumSeeds - 1)

-----------------------------------------------------------------------------
(* check_libraries, streamlit.py 58-79 *)

\* installed: the optional decoders that can be imported; textstat is
\* importable unless the scorer is <<"missing">>
check_libraries ==
    [pdf      |-> "PyPDF2" \in installed,
     docx     |-> "docx" \in installed,
     textstat |-> scorer[1] # "missing"]

-----------------------------------------------------------------------------
(* Uploaded files and text extraction, streamlit.py 81-106 *)

\* an uploaded file: its name, what its decoder yields (the pages of a PDF,
\* the paragraphs of a Word document, the decoded characters of any other
\* file as a single part) and whether the decoder fails on it
File(name, parts, corrupt) == [name |-> name, parts |-> parts, corrupt |-> corrupt]

\* Path(filename).suffix.lower()
Suffix(name) ==
    LET dots == {i \in 1..Len(name) : name[i] = "."}
        last == CHOOSE i \in dots : \A j \in dots : j <= i
    IN  IF dots = {} \/ last = 1 \/ last = Len(name) THEN <<>>
        ELSE Lower(SubSeq(name, last, Len(name)))

\* text += part + "\n" over the parts
RECURSIVE JoinLines(_)
JoinLines(parts) ==
    IF parts = <<>> THEN <<>>
    ELSE parts[1] \o <<"\n">> \o JoinLines(Tail(parts))

ErrorText == <<"E", "r", "r", "o", "r", " ", "e", "x", "t", "r", "a", "c", "t", "i", "n", "g", " ", "t", "e", "x", "t", ":", " ", "f", "a", "i", "l", "e", "d">>

\* the except clause turns every failure into a string that is returned
extract_text_from_file(file, file_type) ==
    IF file_type = "pdf"
    THEN IF "PyPDF2" \in installed /\ ~ file.corrupt
         THEN Strip(JoinLines(file.parts), Whitespace)
         ELSE ErrorText
    ELSE IF file_type = "docx"
    THEN IF "docx" \in installed /\ ~ file.corrupt
         THEN Strip(JoinLines(file.parts), Whitespace)
         ELSE ErrorText
    ELSE file.parts[1]

\* the body of the try statement of main(), streamlit.py 216-222:
\* <<"ok", text>> or <<"raise">> when an exception reaches main()
ReadUpload(file) ==
    LET file_extension == Suffix(file.name)
    IN  IF file_extension = <<".", "p", "d", "f">>
        THEN <<"ok", extract_text_from_file(file, "pdf")>>
        ELSE IF file_extension = <<".", "d", "o", "c", "x">>
        THEN <<"ok", extract_text_from_file(file, "docx")>>
        ELSE <<"ok", file.parts[1]>>

-----------------------------------------------------------------------------
(* Inputs of the interface *)

UITexts == {<<>>, <<" ">>, <<"a", "a", "a", ".", " ", "1", "%", "a">>, <<"M", "a", "r", "k", "e", "t", " ", "s", "t", "o", "r", "y", " ", "2", "0", "0", "1", ".">>}

Files == {
    File(<<"n", ".", "t", "x", "t">>, <<<<>>>>, FALSE),
    File(<<"t", ".", "m", "d">>, <<<<"P", "l", "a", "i", "n", " ", "n", "o", "t", "e", "s", ".">>>>, FALSE),
    File(<<"p", ".", "P", "D", "F">>, <<<<"A", "b", "s", "t", "r", "a", "c", "t", " ">>, <<" ", "o", "f", " ", "2", "0", "2", "0", ".", "\n">>>>, FALSE),
    File(<<"q", ".", "p", "d", "f">>, <<<<"l", "o", "s", "t">>>>, TRUE),
    File(<<"e", ".", "p", "d", "f">>, <<<<" ">>, <<>>>>, FALSE),
    File(<<"w", ".", "d", "o", "c", "x">>, <<<<"C", "h", "a", "p", "t", "e", "r", " ", "1", ".">>, <<"T", "h", "e", " ", "e", "n", "d", ".">>>>, FALSE),
    File(<<"x", ".", "d", "o", "c", "x">>, <<<<"l", "o", "s", "t">>>>, TRUE) }

Methods == {"upload", "paste", "sample"}

SampleNames == <<<<"R", "e", "s", "e", "a", "r", "c", "h", " ", "P", "a", "p", "e", "r">>, <<"B", "u", "s", "i", "n", "e", "s", "s", " ", "R", "e", "p", "o", "r", "t">>, <<"T", "e", "c", "h", "n", "i", "c", "a", "l", " ", "G", "u", "i", "d", "e">>>>

sample_options == <<
    <<"A", "b", "s", "t", "r", "a", "c", "t", ":", " ", "M", "a", "c", "h", "i", "n", "e", " ", "l", "e", "a", "r", "n", "i", "n", "g", " ", "a", "p", "p", "l", "i", "c", "a", "t", "i", "o", "n", "s", " ", "i", "n", " ", "h", "e", "a", "l", "t", "h", "c", "a", "r", "e", " ", "h", "a", "v", "e", " ", "s", "h", "o", "w", "n", " ", "r", "e", "m", "a", "r", "k", "a", "b", "l", "e", " ", "p", "r", "o", "g", "r", "e", "s", "s", " ", "i", "n", " ", "r", "e", "c", "e", "n", "t", " ", "y", "e", "a", "r", "s", ".", " ", "T", "h", "i", "s", " ", "s", "t", "u", "d", "y", " ", "e", "x", "a", "m", "i", "n", "e", "s", " ", "t", "h", "e", " ", "i", "m", "p", "l", "e", "m", "e", "n", "t", "a", "t", "i", "o", "n", " ", "o", "f", " ", "d", "e", "e", "p", " ", "l", "e", "a", "r", "n", "i", "n", "g", " ", "a", "l", "g", "o", "r", "i", "t", "h", "m", "s", " ", "f", "o", "r", " ", "m", "e", "d", "i", "c", "a", "l", " ", "i", "m", "a", "g", "e", " ", "a", "n", "a", "l", "y", "s", "i", "s", ".", " ", "I", "n", "t", "r", "o", "d", "u", "c", "t", "i", "o", "n", ":", " ", "A", "r", "t", "i", "f", "i", "c", "i", "a", "l", " ", "i", "n", "t", "e", "l", "l", "i", "g", "e", "n", "c", "e", " ", "i", "s", " ", "r", "e", "v", "o", "l", "u", "t", "i", "o", "n", "i", "z", "i", "n", "g", " ", "h", "e", "a", "l", "t", "h", "c", "a", "r", "e", " ", "d", "i", "a", "g", "n", "o", "s", "t", "i", "c", "s", ".", " ", "O", "u", "r", " ", "m", "e", "t", "h", "o", "d", "o", "l", "o", "g", "y", " ", "i", "n", "v", "o", "l", "v", "e", "s", " ", "c", "o", "n", "v", "o", "l", "u", "t", "i", "o", "n", "a", "l", " ", "n", "e", "u", "r", "a", "l", " ", "n", "e", "t", "w", "o", "r", "k", "s", " ", "t", "r", "a", "i", "n", "e", "d", " ", "o", "n", " ", "m", "e", "d", "i", "c", "a", "l", " ", "i", "m", "a", "g", "i", "n", "g", " ", "d", "a", "t", "a", "s", "e", "t", "s", ".", " ", "R", "e", "s", "u", "l", "t", "s", " ", "i", "n", "d", "i", "c", "a", "t", "e", " ", "9", "5", "%", " ", "a", "c", "c", "u", "r", "a", "c", "y", " ", "i", "n", " ", "t", "u", "m", "o", "r", " ", "d", "e", "t", "e", "c", "t", "i", "o", "n", ".", " ", "C", "o", "n", "c", "l", "u", "s", "i", "o", "n", ":", " ", "A", "I", "-", "p", "o", "w", "e", "r", "e", "d", " ", "d", "i", "a", "g", "n", "o", "s", "t", "i", "c", " ", "t", "o", "o", "l", "s", " ", "s", "h", "o", "w", " ", "g", "r", "e", "a", "t", " ", "p", "r", "o", "m", "i", "s", "e", " ", "f", "o", "r", " ", "i", "m", "p", "r", "o", "v", "i", "n", "g", " ", "p", "a", "t", "i", "e", "n", "t", " ", "o", "u", "t", "c", "o", "m", "e", "s", ".">>,
    <<"E", "x", "e", "c", "u", "t", "i", "v", "e", " ", "S", "u", "m", "m", "a", "r", "y", ":", " ", "Q", "3", " ", "f", "i", "n", "a", "n", "c", "i", "a", "l", " ", "r", "e", "s", "u", "l", "t", "s", " ", "s", "h", "o", "w", " ", "s", "t", "r", "o", "n", "g", " ", "g", "r", "o", "w", "t", "h", " ", "a", "c", "r", "o", "s", "s", " ", "a", "l", "l", " ", "b", "u", "s", "i", "n", "e", "s", "s", " ", "s", "e", "g", "m", "e", "n", "t", "s", ".", " ", "R", "e", "v", "e", "n", "u", "e", " ", "i", "n", "c", "r", "e", "a", "s", "e", "d", " ", "1", "8", "%", " ", "y", "e", "a", "r", "-", "o", "v", "e", "r", "-", "y", "e", "a", "r", " ", "t", "o", " ", "$", "2", ".", "4", " ", "b", "i", "l", "l", "i", "o", "n", ",", " ", "d", "r", "i", "v", "e", "n", " ", "b", "y", " ", "d", "i", "g", "i", "t", "a", "l", " ", "t", "r", "a", "n", "s", "f", "o", "r", "m", "a", "t", "i", "o", "n", " ", "i", "n", "i", "t", "i", "a", "t", "i", "v", "e", "s", ".", " ", "M", "a", "r", "k", "e", "t", " ", "e", "x", "p", "a", "n", "s", "i", "o", "n", " ", "i", "n", " ", "A", "s", "i", "a", "-", "P", "a", "c", "i", "f", "i", "c", " ", "r", "e", "g", "i", "o", "n", " ", "c", "o", "n", "t", "r", "i", "b", "u", "t", "e", "d", " ", "2", "5", "%", " ", "o", "f", " ", "t", "o", "t", "a", "l", " ", "g", "r", "o", "w", "t", "h", ".", " ", "S", "t", "r", "a", "t", "e", "g", "i", "c", " ", "r", "e", "c", "o", "m", "m", "e", "n", "d", "a", "t", "i", "o", "n", "s", " ", "i", "n", "c", "l", "u", "d", "e", " ", "i", "n", "v", "e", "s", "t", "i", "n", "g", " ", "i", "n", " ", "c", "l", "o", "u", "d", " ", "i", "n", "f", "r", "a", "s", "t", "r", "u", "c", "t", "u", "r", "e", " ", "a", "n", "d", " ", "e", "x", "p", "a", "n", "d", "i", "n", "g", " ", "o", "u", "r", " ", "e", "-", "c", "o", "m", "m", "e", "r", "c", "e", " ", "p", "l", "a", "t", "f", "o", "r", "m", ".", " ", "C", "u", "s", "t", "o", "m", "e", "r", " ", "s", "a", "t", "i", "s", "f", "a", "c", "t", "i", "o", "n", " ", "s", "c", "o", "r", "e", "s", " ", "i", "m", "p", "r", "o", "v", "e", "d", " ", "t", "o", " ", "8", "9", "%", ",", " ", "r", "e", "f", "l", "e", "c", "t", "i", "n", "g", " ", "o", "u", "r", " ", "c", "o", "m", "m", "i", "t", "m", "e", "n", "t", " ", "t", "o", " ", "s", "e", "r", "v", "i", "c", "e", " ", "e", "x", "c", "e", "l", "l", "e", "n", "c", "e", ".">>,
    <<"I", "n", "s", "t", "a", "l", "l", "a", "t", "i", "o", "n", " ", "I", "n", "s", "t", "r", "u", "c", "t", "i", "o", "n", "s", ":", " ", "T", "h", "i", "s", " ", "g", "u", "i", "d", "e", " ", "c", "o", "v", "e", "r", "s", " ", "t", "h", "e", " ", "s", "e", "t", "u", "p", " ", "p", "r", "o", "c", "e", "s", "s", " ", "f", "o", "r", " ", "o", "u", "r", " ", "n", "e", "w", " ", "s", "o", "f", "t", "w", "a", "r", "e", " ", "p", "l", "a", "t", "f", "o", "r", "m", ".", " ", "S", "y", "s", "t", "e", "m", " ", "R", "e", "q", "u", "i", "r", "e", "m", "e", "n", "t", "s", ":", " ", "W", "i", "n", "d", "o", "w", "s", " ", "1", "0", " ", "o", "r", " ", "m", "a", "c", "O", "S", " ", "1", "0", ".", "1", "5", "+", ",", " ", "8", "G", "B", " ", "R", "A", "M", " ", "m", "i", "n", "i", "m", "u", "m", ",", " ", "2", "0", "G", "B", " ", "a", "v", "a", "i", "l", "a", "b", "l", "e", " ", "s", "t", "o", "r", "a", "g", "e", ".", " ", "S", "t", "e", "p", " ", "1", ":", " ", "D", "o", "w", "n", "l", "o", "a", "d", " ", "t", "h", "e", " ", "i", "n", "s", "t", "a", "l", "l", "e", "r", " ", "f", "r", "o", "m", " ", "o", "u", "r", " ", "o", "f", "f", "i", "c", "i", "a", "l", " ", "w", "e", "b", "s", "i", "t", "e", ".", " ", "S", "t", "e", "p", " ", "2", ":", " ", "R", "u", "n", " ", "t", "h", "e", " ", "i", "n", "s", "t", "a", "l", "l", "e", "r", " ", "w", "i", "t", "h", " ", "a", "d", "m", "i", "n", "i", "s", "t", "r", "a", "t", "o", "r", " ", "p", "r", "i", "v", "i", "l", "e", "g", "e", "s", ".", " ", "S", "t", "e", "p", " ", "3", ":", " ", "C", "o", "n", "f", "i", "g", "u", "r", "e", " ", "d", "a", "t", "a", "b", "a", "s", "e", " ", "c", "o", "n", "n", "e", "c", "t", "i", "o", "n", "s", " ", "a", "n", "d", " ", "A", "P", "I", " ", "e", "n", "d", "p", "o", "i", "n", "t", "s", ".", " ", "T", "r", "o", "u", "b", "l", "e", "s", "h", "o", "o", "t", "i", "n", "g", ":", " ", "C", "o", "m", "m", "o", "n", " ", "i", "s", "s", "u", "e", "s", " ", "i", "n", "c", "l", "u", "d", "e", " ", "f", "i", "r", "e", "w", "a", "l", "l", " ", "b", "l", "o", "c", "k", "i", "n", "g", " ", "p", "o", "r", "t", " ", "8", "0", "8", "0", " ", "a", "n", "d", " ", "i", "n", "s", "u", "f", "f", "i", "c", "i", "e", "n", "t", " ", "d", "i", "s", "k", " ", "s", "p", "a", "c", "e", ".">> >>

\* selected_sample.lower().replace(' ', '_') + ".txt"
SampleFilename(name) ==
    [i \in 1..Len(name) |-> IF name[i] = " " THEN "_" ELSE LowerChar(name[i])]
    \o <<".", "t", "x", "t">>

DefaultName == <<"p", "a", "s", "t", "e", "d", "_", "t", "e", "x", "t", ".", "t", "x", "t">>
PastedNames == {DefaultName, <<>>}

-----------------------------------------------------------------------------
(* main(), streamlit.py 169-384: one run of the script.  Streamlit runs    *)
(* the whole script after every interaction with a widget, and a widget    *)
(* that a run does not create loses its value.                             *)

\* tempfile.NamedTemporaryFile(delete=False): a path not in use
NewTmp == CHOOSE p \in 1..(MaxTmpFiles + 1) : p \notin tmp_files

\* the metric strip, streamlit.py 262-270
Metrics(r) ==
    [words       |-> r.word_count,
     characters  |-> r.char_count,
     type        |-> r.doc_type.label,
     readability |-> IF r.readability # 0 THEN <<"value", r.readability>>
                                          ELSE <<"N/A">>]

\* the analysis run whatever the text is
AnalysedAlways(pressed, text) == pressed

\* if st.button(...): if text_content:, streamlit.py 252-253
Analysed(pressed, text) == pressed /\ text # <<>>

\* method .. pressed: the widget values of this run; write_ok: whether
\* tmp_file.write succeeds
main(method, upl, ptext, pname, sample, pressed, write_ok) ==
    LET upload == method = "upload" /\ upl # <<>>
        read == ReadUpload(upl[1])
        text == IF method = "upload"
                THEN (IF upload /\ read[1] = "ok" THEN read[2] ELSE <<>>)
                ELSE IF method = "paste" THEN ptext
                ELSE sample_options[sample]
        name == IF method = "upload"
                THEN (IF upload THEN upl[1].name ELSE <<>>)
                ELSE IF method = "paste" THEN pname
                ELSE SampleFilename(SampleNames[sample])
        analysed == Analysed(pressed, text)
        returned == analyze_document(text, name)
    IN  /\ input_method' = method
        /\ uploaded_file' = upl
        /\ pasted_text' = ptext
        /\ pasted_name' = pname
        /\ selected_sample' = sample
        /\ UNCHANGED <<installed, scorer, hashseed>>
        /\ IF upload /\ ~ write_ok
           THEN \* the with statement is left by the exception of write():
                \* the file stays, the script run ends
                /\ tmp_files' = tmp_files \cup {NewTmp}
                /\ aborted' = TRUE
                /\ button' = FALSE      \* st.button is not reached
                /\ text_content' = <<>>
                /\ filename' = name
                /\ results' = <<>>
                /\ rendered' = <<>>
                /\ messages' = {"exception"}
           ELSE /\ tmp_files' = IF upload
                                THEN (tmp_files \cup {NewTmp}) \ {NewTmp}
                                ELSE tmp_files
                /\ aborted' = FALSE
                /\ button' = pressed
                /\ text_content' = text
                /\ filename' = name
                /\ IF analysed
                   THEN \E elapsed \in Durations :
                            /\ results' = <<returned[elapsed]>>
                            /\ rendered' = <<Metrics(returned[elapsed])>>
                   ELSE results' = <<>> /\ rendered' = <<>>
                /\ messages' =
                       (IF upload /\ read[1] = "raise" THEN {"error"} ELSE {}) \cup
                       (IF analysed THEN {"success"} ELSE {}) \cup
                       (IF pressed /\ ~ analysed THEN {"warning"} ELSE {})

\* tmp_file.write may raise OSError (no space left on the device)
WriteOutcomes(method, upl) ==
    IF method = "upload" /\ upl # <<>> /\ Cardinality(tmp_files) < MaxTmpFiles
    THEN BOOLEAN ELSE {TRUE}

Rerun(method, upl, ptext, pname, sample, pressed) ==
    \E write_ok \in WriteOutcomes(method, upl) :
        main(method, upl, ptext, pname, sample, pressed, write_ok)

Init ==
    /\ installed \in SUBSET {"PyPDF2", "docx"}
    /\ scorer \in Scorers
    /\ hashseed \in Seeds
    /\ input_method = "upload"
    /\ uploaded_file = <<>>
    /\ pasted_text = <<>>
    /\ pasted_name = DefaultName
    /\ selected_sample = 1
    /\ button = FALSE
    /\ text_content = <<>>
    /\ filename = <<>>
    /\ results = <<>>
    /\ rendered = <<>>
    /\ messages = {}
    /\ tmp_files = {}
    /\ aborted = FALSE

\* st.radio: the widgets of the other methods are not created in the run
SelectMethod ==
    \E m \in Methods \ {input_method} :
        Rerun(m, <<>>, <<>>, DefaultName, 1, FALSE)

\* st.file_uploader: a file is chosen
UploadFile ==
    /\ input_method = "upload"
    /\ \E f \in Files :
           /\ uploaded_file # <<f>>
           /\ Rerun(input_method, <<f>>, pasted_text, pasted_name, selected_sample, FALSE)

\* st.file_uploader: the file is removed
RemoveFile ==
    /\ input_method = "upload"
    /\ uploaded_file # <<>>
    /\ Rerun(input_method, <<>>, pasted_text, pasted_name, selected_sample, FALSE)

\* st.text_area
PasteText ==
    /\ input_method = "paste"
    /\ \E t \in UITexts \ {pasted_text} :
           Rerun(input_method, uploaded_file, t, pasted_name, selected_sample, FALSE)

\* st.text_input
NameText ==
    /\ input_method = "paste"
    /\ \E n \in PastedNames \ {pasted_name} :
           Rerun(input_method, uploaded_file, pasted_text, n, selected_sample, FALSE)

\* st.selectbox
SelectSample ==
    /\ input_method = "sample"
    /\ \E s \in (1..Len(sample_options)) \ {selected_sample} :
           Rerun(input_method, uploaded_file, pasted_text, pasted_name, s, FALSE)

\* st.button
PressAnalyze ==
    Rerun(input_method, uploaded_file, pasted_text, pasted_name, selected_sample, TRUE)

Next ==
    \/ SelectMethod
    \/ UploadFile
    \/ RemoveFile
    \/ PasteText
    \/ NameText
    \/ SelectSample
    \/ PressAnalyze

Spec == Init /\ [][Next]_vars

-----------------------------------------------------------------------------
(* analyze_document called directly on a text and a filename, in one       *)
(* process or in several                                                   *)

FnInit ==
    /\ installed = {"PyPDF2", "docx"}
    /\ scorer \in Scorers
    /\ hashseed \in Seeds
    /\ input_method = "paste"
    /\ uploaded_file = <<>>
    /\ pasted_text = <<>>
    /\ pasted_name = DefaultName
    /\ selected_sample = 1
    /\ button = FALSE
    /\ text_content \in FnTexts
    /\ filename \in Filenames
    /\ results = <<>>
    /\ rendered = <<>>
    /\ messages = {}
    /\ tmp_files = {}
    /\ aborted = FALSE

\* results = analyze_document(text_content, filename)
Call ==
    /\ LET returned == analyze_document(text_content, filename)
       IN  \E elapsed \in Durations : results' = <<returned[elapsed]>>
    /\ UNCHANGED <<installed, scorer, hashseed, input_method, uploaded_file,
                   pasted_text, pasted_name, selected_sample, button,
                   text_content, filename, rendered, messages, tmp_files,
                   aborted>>

\* the program is started again: the new process has another hash seed
Restart ==
    /\ \E s \in Seeds \ {hashseed} : hashseed' = s
    /\ UNCHANGED <<installed, scorer, input_method, uploaded_file,
                   pasted_text, pasted_name, selected_sample, button,
                   text_content, filename, results, rendered, messages,
                   tmp_files, aborted>>

FnNext == Call \/ Restart

FnSpec == FnInit /\ [][FnNext]_vars

-----------------------------------------------------------------------------
(* Properties *)

NoDuplicates(lst) == \A i, j \in 1..Len(lst) : lst[i] = lst[j] => i = j

\* C1: the topics of a returned record are at most 8, none of them is a
\* stop word and none of them has 3 characters or fewer
C1_TopicsClean ==
    results # <<>> =>
        LET ts == results[1].topics
        IN  /\ Len(ts) <= 8
            /\ \A i \in 1..Len(ts) : ts[i] \notin stop_words /\ Len(ts[i]) > 3

\* C2: a record for which no score was computed (empty text, textstat
\* missing or failing) does not carry the number zero as its readability
C2_NoScoreIsNotZero ==
    (results # <<>> /\ (text_content = <<>> \/ scorer[1] # "score")) =>
        results[1].readability # 0

\* digits, optionally a dot and digits, then a percent sign
PercentShape(s) ==
    /\ Len(s) >= 2
    /\ s[Len(s)] = "%"
    /\ \/ \A k \in 1..(Len(s) - 1) : s[k] \in Digits
       \/ \E d \in 2..(Len(s) - 2) :
              /\ s[d] = "."
              /\ \A k \in (1..(Len(s) - 1)) \ {d} : s[k] \in Digits

\* a whitespace-delimited word that is a percentage, or a percentage
\* followed by a full stop
PercentWords(text) ==
    {w \in Range(words(text)) : PercentShape(w)} \cup
    {SubSeq(w, 1, Len(w) - 1) : w \in {w \in Range(words(text)) :
        Len(w) >= 3 /\ w[Len(w)] = "." /\ PercentShape(SubSeq(w, 1, Len(w) - 1))}}

\* C3: the scenario text yields its email, its date and both of its
\* percentages; a percentage is extracted whatever follows the percent sign
C3_ScenarioEntities ==
    results # <<>> =>
        /\ text_content = Scenario =>
              /\ results[1].emails = <<<<"j", "o", "h", "n", "@", "e", "x", "a", "m", "p", "l", "e", ".", "c", "o", "m">>>>
              /\ <<"1", "2", "/", "0", "5", "/", "2", "0", "2", "3">> \in Range(results[1].dates)
              /\ <<"1", "8", ".", "5", "%">> \in Range(results[1].percentages)
              /\ <<"1", "8", "%">> \in Range(results[1].percentages)
        /\ Cardinality(PercentWords(text_content)) <= MaxPercentages =>
              PercentWords(text_content) \subseteq Range(results[1].percentages)

\* the decoder of the uploaded file fails: the file is corrupt or the
\* library for its type is missing
ExtractionFails(file) ==
    \/ Suffix(file.name) = <<".", "p", "d", "f">> /\ (file.corrupt \/ ~ check_libraries.pdf)
    \/ Suffix(file.name) = <<".", "d", "o", "c", "x">> /\ (file.corrupt \/ ~ check_libraries.docx)

\* C4: a run in which the extraction of the uploaded file fails shows an
\* error message and does not call analyze_document
C4_ExtractionFailureReported ==
    (input_method = "upload" /\ uploaded_file # <<>> /\ ~ aborted
        /\ ExtractionFails(uploaded_file[1])) =>
        ("error" \in messages /\ results = <<>>)

SameExceptTime(r1, r2) ==
    [r1 EXCEPT !.processing_time = 0] = [r2 EXCEPT !.processing_time = 0]

\* C5: two successive calls on the same text and filename, in one process
\* or in two, return records that differ at most in processing_time
C5_Reproducible ==
    [][(results # <<>> /\ results' # <<>>) =>
          SameExceptTime(results[1], results'[1])]_vars

DateShape(s) ==
    \/ Len(s) = 4 /\ \A k \in 1..4 : s[k] \in Digits
    \/ \E a \in 1..2, b \in 1..2, c \in 2..4 :
           /\ Len(s) = a + b + c + 2
           /\ s[a + 1] \in DateSeps
           /\ s[a + b + 2] \in DateSeps
           /\ \A k \in (1..Len(s)) \ {a + 1, a + b + 2} : s[k] \in Digits

EmailShape(s) ==
    \E at \in 2..Len(s), dot \in 4..Len(s) :
        /\ s[at] = "@"
        /\ s[dot] = "."
        /\ at + 1 < dot
        /\ dot + MinTld <= Len(s)
        /\ \A k \in 1..(at - 1) : s[k] \in LocalChars
        /\ \A k \in (at + 1)..(dot - 1) : s[k] \in DomainChars
        /\ \A k \in (dot + 1)..Len(s) : s[k] \in TldChars

\* C6: at most 5 dates, 5 percentages and 3 emails, no value twice, and
\* every value is a match of its pattern that occurs in the text
C6_EntityCaps ==
    results # <<>> =>
        LET r == results[1]
        IN  /\ Len(r.dates) <= 5 /\ Len(r.percentages) <= 5 /\ Len(r.emails) <= 3
            /\ NoDuplicates(r.dates)
            /\ NoDuplicates(r.percentages)
            /\ NoDuplicates(r.emails)
            /\ \A i \in 1..Len(r.dates) :
                   DateShape(r.dates[i]) /\ Contains(text_content, r.dates[i])
            /\ \A i \in 1..Len(r.percentages) :
                   PercentShape(r.percentages[i]) /\ Contains(text_content, r.percentages[i])
            /\ \A i \in 1..Len(r.emails) :
                   EmailShape(r.emails[i]) /\ Contains(text_content, r.emails[i])

\* a record for a text with a repeated date and more distinct dates than
\* the cap
C6_Witness ==
    /\ results # <<>>
    /\ Len(results[1].dates) = MaxDates
    /\ Len(Distinct(FindAll("date", text_content))) > MaxDates
    /\ ~ NoDuplicates(FindAll("date", text_content))

\* case-insensitive occurrence of a keyword
Mentions(text, kw) ==
    \E i \in 1..(Len(text) - Len(kw) + 1) :
        \A k \in 1..Len(kw) : LowerChar(text[i + k - 1]) = kw[k]

MentionsAny(text, kws) == \E kw \in kws : Mentions(text, kw)

\* the number of whitespace-delimited words
NumWords(text) ==
    Cardinality({i \in 1..Len(text) :
        text[i] \notin Whitespace /\ (i = 1 \/ text[i - 1] \in Whitespace)})

\* C7: the document type is decided by the first rule that applies, in the
\* order academic, business, literary, short, general
C7_Classification ==
    results # <<>> =>
        LET label == results[1].doc_type.label
            t == text_content
            ac == MentionsAny(t, AcademicWords)
            bu == MentionsAny(t, BusinessWords)
            li == MentionsAny(t, LiteraryWords)
        IN  /\ label \in {"Academic Paper", "Business Document", "Literary Work",
                          "Short Document", "General Document"}
            /\ ac => label = "Academic Paper"
            /\ (~ ac /\ bu) => label = "Business Document"
            /\ (~ ac /\ ~ bu /\ li) => label = "Literary Work"
            /\ (~ ac /\ ~ bu /\ ~ li /\ NumWords(t) < 100) => label = "Short Document"
            /\ (~ ac /\ ~ bu /\ ~ li /\ NumWords(t) >= 100) => label = "General Document"

\* a record for a text with an academic and a business keyword
C7_Witness ==
    /\ results # <<>>
    /\ MentionsAny(text_content, AcademicWords)
    /\ MentionsAny(text_content, BusinessWords)
    /\ results[1].doc_type.label = "Academic Paper"

\* the positions at which a segment between full stops begins, leading
\* whitespace left out: no character but whitespace lies between the
\* position and the full stop (or the start of the text) before it
SegmentFirsts(t) ==
    {i \in 1..Len(t) :
        /\ t[i] \notin Whitespace \cup {"."}
        /\ LET before == {k \in 1..(i - 1) : t[k] \notin Whitespace}
           IN  before = {} \/ t[CHOOSE k \in before : \A m \in before : m <= k] = "."}

\* the positions at which such a segment ends, trailing whitespace left out
SegmentLasts(t) ==
    {i \in 1..Len(t) :
        /\ t[i] \notin Whitespace \cup {"."}
        /\ LET after == {k \in (i + 1)..Len(t) : t[k] \notin Whitespace}
           IN  after = {} \/ t[CHOOSE k \in after : \A m \in after : m >= k] = "."}

Least(S) == CHOOSE i \in S : \A j \in S : i <= j

\* C8: the summary is the first two non-empty trimmed segments joined by
\* ". " with a final ".", or else the first 200 characters and "..."
C8_Summary ==
    results # <<>> =>
        LET t == text_content
            firsts == SegmentFirsts(t)
            lasts == SegmentLasts(t)
            f1 == Least(firsts)
            l1 == Least(lasts)
            f2 == Least(firsts \ {f1})
            l2 == Least(lasts \ {l1})
        IN  IF Cardinality(firsts) >= 2
            THEN results[1].summary =
                     SubSeq(t, f1, l1) \o <<".", " ">> \o SubSeq(t, f2, l2) \o <<".">>
            ELSE results[1].summary =
                     [k \in 1..Min(Len(t), 200) |-> t[k]] \o <<".", ".", ".">>

\* a record for a text of at least two segments, one of them trimmed
C8_Witness ==
    /\ results # <<>>
    /\ Cardinality(SegmentFirsts(text_content)) >= 2
    /\ Len(results[1].summary) < Len(text_content)

\* C9: pressing Analyze on an empty text shows a warning and does not call
\* analyze_document; analyze_document is called on non-empty text only; the
\* run that warns ends normally and Analyze can be pressed again
C9_EmptyInputWarned ==
    /\ (button /\ ~ aborted /\ text_content = <<>>) =>
           ("warning" \in messages /\ results = <<>> /\ rendered = <<>>)
    /\ results # <<>> =>
           (text_content # <<>> /\ results[1].char_count = Len(text_content))
    /\ "warning" \in messages => (~ aborted /\ ENABLED PressAnalyze)

\* Analyze pressed on an upload that decoded to the empty text
C9_Witness ==
    /\ button
    /\ input_method = "upload"
    /\ uploaded_file # <<>>
    /\ text_content = <<>>
    /\ "warning" \in messages

\* C10: when the handling of an upload is over, no temporary file is left
C10_TmpFilesDeleted == tmp_files = {}

====
